---- MODULE Spec2Model ----
(***************************************************************************)
(* Model of the domain generation tool (scripts/domain_assembler.py) and   *)
(* of the contract dataclasses (shared/types.py).                          *)
(*                                                                         *)
(* Python values are tagged records so that nested dicts, lists, strings   *)
(* and integers live in one comparable shape.  A dict keeps its insertion  *)
(* order (a sequence of key/value entries), as Python dicts do.            *)
(***************************************************************************)
EXTENDS Integers, Sequences, FiniteSets, TLC

VARIABLES
    pc,                \* position of the tool's process
    gazebo_json_path,  \* args.input: None or <<path>>
    output_path,       \* args.output
    domain,            \* local `domain` of convert_gazebo_to_domain: None or <<value>>
    exc,               \* exception that ended the invocation, "none" if none
    stdout,            \* lines printed by the current invocation
    dirs,              \* file system: which parent directories exist
    fs,                \* file system: per output path, [exists, lines]
    held,              \* a structure a caller got from generate_test_domain(): None or <<value>>
    nmut,              \* number of mutations the caller applied to `held`
    fs_at_call,        \* history: the output file as it was when the invocation started
    prev_out,          \* history: per path, what the last completed no-input run left there
    belief,            \* the BeliefState constructed last
    action,            \* the AbstractAction constructed last
    agents,            \* the AgentState constructed last, per agent id
    world              \* the WorldState constructed last

vars == <<pc, gazebo_json_path, output_path, domain, exc, stdout, dirs, fs,
          held, nmut, fs_at_call, prev_out, belief, action, agents, world>>

toolVars == <<pc, gazebo_json_path, output_path, domain, exc, stdout, dirs, fs,
              held, nmut, fs_at_call, prev_out>>

typeVars == <<belief, action, agents, world>>

\* Optional[...] values: None is the empty tuple, a present value a 1-tuple.
None == <<>>

Some(x) == <<x>>

----------------------------------------------------------------------------
(* Python values *)

VStr(s) == [t |-> "str", s |-> s, n |-> 0, items |-> <<>>]

VInt(n) == [t |-> "int", s |-> "", n |-> n, items |-> <<>>]

KV(k, v) == [k |-> k, v |-> v]

VMap(entries) == [t |-> "map", s |-> "", n |-> 0, items |-> entries]

VList(vals) == [t |-> "list", s |-> "", n |-> 0,
                items |-> [i \in 1..Len(vals) |-> KV("", vals[i])]]

\* d[k]
Get(d, k) == d.items[CHOOSE i \in 1..Len(d.items) : d.items[i].k = k].v

\* d[k] = v on an existing key
Put(d, k, v) ==
    [d EXCEPT !.items = [i \in 1..Len(d.items) |->
        IF d.items[i].k = k THEN KV(k, v) ELSE d.items[i]]]

\* the elements of a list value, as a sequence
Elems(l) == [i \in 1..Len(l.items) |-> l.items[i].v]

\* len(x)
PyLen(x) == Len(x.items)

----------------------------------------------------------------------------
(* generate_test_domain: the hardcoded test environment *)

Pair(a, b) == VList(<<VInt(a), VInt(b)>>)

Metadata ==
    VMap(<<KV("name", VStr("test_kitting_cell")),
           KV("description", VStr("Test environment for intention recognition")),
           KV("version", VStr("1.0")),
           KV("source", VStr("hardcoded_test_data"))>>)

Environment ==
    VMap(<<KV("width", VInt(1600)), KV("height", VInt(800)), KV("units", VStr("pixels"))>>)

Zone(id, x_min, x_max, y_min, y_max, label) ==
    VMap(<<KV("id", VStr(id)),
           KV("bounds", VMap(<<KV("x_min", VInt(x_min)), KV("x_max", VInt(x_max)),
                               KV("y_min", VInt(y_min)), KV("y_max", VInt(y_max))>>)),
           KV("label", VStr(label))>>)

Zones_overlap ==
    <<Zone("zone_SE", 800, 1600, 0, 400, "southeast_storage"),
      Zone("zone_SW", 0, 900, 0, 400, "southwest_storage"),
      Zone("zone_NW", 0, 800, 400, 800, "northwest_work"),
      Zone("zone_NE", 800, 1600, 400, 800, "northeast_work")>>

Zones_three ==
    <<Zone("zone_SE", 800, 1600, 0, 400, "southeast_storage"),
      Zone("zone_SW", 0, 800, 0, 400, "southwest_storage"),
      Zone("zone_NW", 0, 800, 400, 800, "northwest_work")>>

Zones ==
    <<Zone("zone_SE", 800, 1600, 0, 400, "southeast_storage"),
      Zone("zone_SW", 0, 800, 0, 400, "southwest_storage"),
      Zone("zone_NW", 0, 800, 400, 800, "northwest_work"),
      Zone("zone_NE", 800, 1600, 400, 800, "northeast_work")>>

Shelf(id, x, y, zone) ==
    VMap(<<KV("id", VStr(id)), KV("position", Pair(x, y)), KV("size", Pair(100, 100)),
           KV("slots", VInt(4)), KV("zone", VStr(zone))>>)

Shelves_dangling ==
    <<Shelf("shelf_1", 100, 100, "zone_SW"),
      Shelf("shelf_2", 300, 100, "zone_SW"),
      Shelf("shelf_3", 1400, 100, "zone_S")>>

Shelves_misplaced ==
    <<Shelf("shelf_1", 100, 100, "zone_SW"),
      Shelf("shelf_2", 300, 100, "zone_SW"),
      Shelf("shelf_3", 1400, 100, "zone_NE")>>

Shelves ==
    <<Shelf("shelf_1", 100, 100, "zone_SW"),
      Shelf("shelf_2", 300, 100, "zone_SW"),
      Shelf("shelf_3", 1400, 100, "zone_SE")>>

Tables ==
    <<VMap(<<KV("id", VStr("kitting_table")), KV("position", Pair(650, 710)),
             KV("size", Pair(300, 90)), KV("zone", VStr("zone_NW"))>>)>>

Door(id, x, y, function) ==
    VMap(<<KV("id", VStr(id)), KV("position", Pair(x, y)), KV("size", Pair(150, 30)),
           KV("function", VStr(function))>>)

Doors ==
    <<Door("south_exit", 725, 0, "exit"), Door("north_entry_A", 1450, 770, "enter")>>

Item(id, type, initial_location) ==
    VMap(<<KV("id", VStr(id)), KV("type", VStr(type)),
           KV("initial_location", VStr(initial_location)), KV("size", Pair(25, 25))>>)

Items ==
    <<Item("item_1", "part_A", "shelf_1"),
      Item("item_2", "part_A", "shelf_2"),
      Item("item_3", "part_B", "shelf_3")>>

TestDomain ==
    VMap(<<KV("metadata", Metadata),
           KV("environment", Environment),
           KV("zones", VList(Zones)),
           KV("shelves", VList(Shelves)),
           KV("tables", VList(Tables)),
           KV("doors", VList(Doors)),
           KV("items", VList(Items))>>)

\* A bug variant: one module-level structure handed out by reference, so that
\* what a caller did to an earlier result shows in the next one.
generate_test_domain_shared == IF held # None THEN held[1] ELSE TestDomain

\* Every call evaluates the dict literal anew: the result shares nothing with
\* an earlier result.
generate_test_domain == TestDomain

----------------------------------------------------------------------------
(* yaml.dump(domain, f, default_flow_style=False, sort_keys=False):         *)
(* block style, keys in insertion order, one record per output line.       *)
(* A line is  <ind spaces> <dash times "- "> [key ":"] [scalar].           *)

YLine(ind, dash, key, kind, v) ==
    [ind |-> ind, dash |-> dash, key |-> key, kind |-> kind, s |-> v.s, n |-> v.n]

IsScalar(v) == v.t \in {"str", "int"}

\* an empty collection is written in flow style: {} or []
EmptyKind(v) == IF v.t = "map" THEN "empty_map" ELSE "empty_list"

RECURSIVE DumpMapFrom(_, _, _), DumpListFrom(_, _, _)

\* the line(s) of the nested node v that starts a sequence item at column ind
DumpItem(v, ind) ==
    IF IsScalar(v) THEN <<YLine(ind, 1, "", v.t, v)>>
    ELSE IF PyLen(v) = 0 THEN <<YLine(ind, 1, "", EmptyKind(v), v)>>
    ELSE LET body == IF v.t = "map" THEN DumpMapFrom(v, ind + 2, 1)
                                    ELSE DumpListFrom(v, ind + 2, 1)
         IN  <<[body[1] EXCEPT !.ind = ind, !.dash = @ + 1]>> \o Tail(body)

\* the line(s) of the mapping entry e at column ind
DumpEntry(e, ind) ==
    IF IsScalar(e.v) THEN <<YLine(ind, 0, e.k, e.v.t, e.v)>>
    ELSE IF PyLen(e.v) = 0 THEN <<YLine(ind, 0, e.k, EmptyKind(e.v), e.v)>>
    ELSE IF e.v.t = "map"
         THEN <<YLine(ind, 0, e.k, "map", e.v)>> \o DumpMapFrom(e.v, ind + 2, 1)
         \* a sequence inside a mapping is not indented
         ELSE <<YLine(ind, 0, e.k, "list", e.v)>> \o DumpListFrom(e.v, ind, 1)

DumpMapFrom(m, ind, i) ==
    IF i > Len(m.items) THEN <<>>
    ELSE DumpEntry(m.items[i], ind) \o DumpMapFrom(m, ind, i + 1)

DumpListFrom(l, ind, i) ==
    IF i > Len(l.items) THEN <<>>
    ELSE DumpItem(l.items[i].v, ind) \o DumpListFrom(l, ind, i + 1)

yaml_dump(d) == DumpMapFrom(d, 0, 1)

----------------------------------------------------------------------------
(* The file system and the command line *)

OutPaths == {"configs/domain.yaml", "out/d.yaml"}

InputPaths == {"world.json"}

\* Path(output_path).parent
Parent(p) == IF p = "configs/domain.yaml" THEN "configs" ELSE "out"

ParentDirs == {Parent(p) : p \in OutPaths}

NoFile == [exists |-> FALSE, lines |-> <<>>]

\* a file somebody left at the output path before the tool ran
StaleFile == [exists |-> TRUE,
              lines |-> <<YLine(0, 0, "stale", "str", VStr("left by an earlier tool"))>>]

\* one line of standard output: which message, and the values formatted into it
PLine(text, path, a, b) == [text |-> text, path |-> path, a |-> a, b |-> b]

SummaryTexts == {"Domain Summary:", "Shelves", "Items", "Zones", "Grid"}

\* the five summary lines printed for domain d
Summary(d) ==
    <<PLine("Domain Summary:", "", 0, 0),
      PLine("Shelves", "", PyLen(Get(d, "shelves")), 0),
      PLine("Items", "", PyLen(Get(d, "items")), 0),
      PLine("Zones", "", PyLen(Get(d, "zones")), 0),
      PLine("Grid", "", Get(Get(d, "environment"), "width").n,
                        Get(Get(d, "environment"), "height").n)>>

----------------------------------------------------------------------------
(* What a caller holding a result of generate_test_domain() may do to it *)

MaxMutations == 2

Mutations == {"set_width", "pop_zone", "retag_shelf"}

Mutate(d, m) ==
    CASE m = "set_width" ->
            Put(d, "environment", Put(Get(d, "environment"), "width", VInt(999)))
      [] m = "pop_zone" ->
            LET zs == Elems(Get(d, "zones"))
            IN  IF Len(zs) = 0 THEN d
                ELSE Put(d, "zones", VList(SubSeq(zs, 1, Len(zs) - 1)))
      [] m = "retag_shelf" ->
            LET ss == Elems(Get(d, "shelves"))
            IN  IF Len(ss) = 0 THEN d
                ELSE Put(d, "shelves",
                         VList(<<Put(ss[1], "zone", VStr("zone_XX"))>> \o Tail(ss)))

CallerGenerate ==
    /\ pc = "idle"
    /\ held' = Some(generate_test_domain)
    /\ nmut' = 0
    /\ UNCHANGED <<pc, gazebo_json_path, output_path, domain, exc, stdout, dirs, fs,
                   fs_at_call, prev_out>>
    /\ UNCHANGED typeVars

CallerMutate(m) ==
    /\ pc = "idle"
    /\ held # None
    /\ nmut < MaxMutations
    /\ held' = Some(Mutate(held[1], m))
    /\ nmut' = nmut + 1
    /\ UNCHANGED <<pc, gazebo_json_path, output_path, domain, exc, stdout, dirs, fs,
                   fs_at_call, prev_out>>
    /\ UNCHANGED typeVars

----------------------------------------------------------------------------
(* The tool: __main__ and convert_gazebo_to_domain, statement by statement *)

\* args = parser.parse_args(); convert_gazebo_to_domain(args.input, args.output)
Main(g, o) ==
    /\ pc = "idle"
    /\ gazebo_json_path' = g
    /\ output_path' = o
    /\ domain' = None
    /\ exc' = "none"
    /\ stdout' = <<>>
    /\ fs_at_call' = fs[o]
    /\ pc' = "mkdir"
    /\ UNCHANGED <<dirs, fs, held, nmut, prev_out>>
    /\ UNCHANGED typeVars

\* output_path.parent.mkdir(parents=True, exist_ok=True), on a path whose
\* parent can be made (faults of the file system are outside the model)
Mkdir ==
    /\ pc = "mkdir"
    /\ dirs' = [dirs EXCEPT ![Parent(output_path)] = TRUE]
    /\ pc' = "branch"
    /\ UNCHANGED <<gazebo_json_path, output_path, domain, exc, stdout, fs,
                   held, nmut, fs_at_call, prev_out>>
    /\ UNCHANGED typeVars

\* if gazebo_json_path is None: print(...); domain = generate_test_domain()
UseTestData ==
    /\ pc = "branch"
    /\ gazebo_json_path = None
    /\ stdout' = Append(stdout, PLine("No Gazebo JSON provided - generating test data", "", 0, 0))
    /\ domain' = Some(generate_test_domain)
    /\ pc' = "open"
    /\ UNCHANGED <<gazebo_json_path, output_path, exc, dirs, fs,
                   held, nmut, fs_at_call, prev_out>>
    /\ UNCHANGED typeVars

\* A bug variant: an input is given, and the tool goes on with the test data.
ParseGazebo_silent ==
    /\ pc = "branch"
    /\ gazebo_json_path # None
    /\ stdout' = Append(stdout, PLine("Parsing Gazebo JSON from", gazebo_json_path[1], 0, 0))
    /\ domain' = Some(generate_test_domain)
    /\ pc' = "open"
    /\ UNCHANGED <<gazebo_json_path, output_path, exc, dirs, fs,
                   held, nmut, fs_at_call, prev_out>>
    /\ UNCHANGED typeVars

\* else: print(...); raise NotImplementedError(...)
ParseGazebo ==
    /\ pc = "branch"
    /\ gazebo_json_path # None
    /\ stdout' = Append(stdout, PLine("Parsing Gazebo JSON from", gazebo_json_path[1], 0, 0))
    /\ exc' = "NotImplementedError"
    /\ pc' = "failed"
    /\ UNCHANGED <<gazebo_json_path, output_path, domain, dirs, fs,
                   held, nmut, fs_at_call, prev_out>>
    /\ UNCHANGED typeVars

\* A bug variant: the file is opened for appending.
OpenForWrite_append ==
    /\ pc = "open"
    /\ fs' = [fs EXCEPT ![output_path] = [exists |-> TRUE, lines |-> @.lines]]
    /\ pc' = "dump"
    /\ UNCHANGED <<gazebo_json_path, output_path, domain, exc, stdout, dirs,
                   held, nmut, fs_at_call, prev_out>>
    /\ UNCHANGED typeVars

\* open(output_path, 'w'): creates the file, or truncates the one that is there
OpenForWrite ==
    /\ pc = "open"
    /\ fs' = [fs EXCEPT ![output_path] = [exists |-> TRUE, lines |-> <<>>]]
    /\ pc' = "dump"
    /\ UNCHANGED <<gazebo_json_path, output_path, domain, exc, stdout, dirs,
                   held, nmut, fs_at_call, prev_out>>
    /\ UNCHANGED typeVars

\* yaml.dump(domain, f, ...) and the end of the with block
DumpYaml ==
    /\ pc = "dump"
    /\ fs' = [fs EXCEPT ![output_path].lines = @ \o yaml_dump(domain[1])]
    /\ pc' = "generated"
    /\ UNCHANGED <<gazebo_json_path, output_path, domain, exc, stdout, dirs,
                   held, nmut, fs_at_call, prev_out>>
    /\ UNCHANGED typeVars

\* print(f"Generated domain config at {output_path}")
PrintGenerated ==
    /\ pc = "generated"
    /\ stdout' = Append(stdout, PLine("Generated domain config at", output_path, 0, 0))
    /\ pc' = "summary"
    /\ UNCHANGED <<gazebo_json_path, output_path, domain, exc, dirs, fs,
                   held, nmut, fs_at_call, prev_out>>
    /\ UNCHANGED typeVars

\* A bug variant: the summary is printed as soon as the domain is there,
\* and the file is never written.
PrintSummary_early ==
    /\ pc = "open"
    /\ stdout' = stdout \o Summary(domain[1])
    /\ pc' = "returned"
    /\ UNCHANGED <<gazebo_json_path, output_path, domain, exc, dirs, fs,
                   held, nmut, fs_at_call, prev_out>>
    /\ UNCHANGED typeVars

\* the five print calls of the summary
PrintSummary ==
    /\ pc = "summary"
    /\ stdout' = stdout \o Summary(domain[1])
    /\ pc' = "returned"
    /\ UNCHANGED <<gazebo_json_path, output_path, domain, exc, dirs, fs,
                   held, nmut, fs_at_call, prev_out>>
    /\ UNCHANGED typeVars

\* print(f"Domain assembly complete. file {args.output} generated.")
PrintComplete ==
    /\ pc = "returned"
    /\ stdout' = Append(stdout, PLine("Domain assembly complete.", output_path, 0, 0))
    /\ pc' = "exit0"
    /\ UNCHANGED <<gazebo_json_path, output_path, domain, exc, dirs, fs,
                   held, nmut, fs_at_call, prev_out>>
    /\ UNCHANGED typeVars

\* the process ends: exit status 0, or 1 with the traceback of the exception
Exit ==
    /\ pc \in {"exit0", "failed"}
    /\ pc' = "idle"
    /\ prev_out' = IF pc = "exit0"
                   THEN [prev_out EXCEPT ![output_path] = Some(fs[output_path].lines)]
                   ELSE prev_out
    /\ UNCHANGED <<gazebo_json_path, output_path, domain, exc, stdout, dirs, fs,
                   held, nmut, fs_at_call>>
    /\ UNCHANGED typeVars

\* one statement of a running invocation
RunStep ==
    \/ Mkdir
    \/ UseTestData
    \/ ParseGazebo
    \/ OpenForWrite
    \/ DumpYaml
    \/ PrintGenerated
    \/ PrintSummary
    \/ PrintComplete

ExitCode == IF pc = "exit0" THEN 0 ELSE IF pc = "failed" THEN 1 ELSE -1

----------------------------------------------------------------------------
(* shared/types.py: the dataclasses.  A dataclass without __post_init__    *)
(* gets an __init__ that stores each argument in its field, and the        *)
(* declared default where no argument is given.  Probabilities and         *)
(* confidences are counted in tenths: 10 stands for 1.0.                   *)

\* an empty dict: field(default_factory=dict)
EmptyDict == [k \in {} |-> 0]

BeliefState(timestamp, agent_id, distribution, most_likely, confidence) ==
    [timestamp |-> timestamp, agent_id |-> agent_id, distribution |-> distribution,
     most_likely |-> most_likely, confidence |-> confidence,
     predicted_next_actions |-> EmptyDict]

AgentState(agent_id, current_zone, holding) ==
    [agent_id |-> agent_id, current_zone |-> current_zone, holding |-> holding,
     current_task |-> None, metadata |-> EmptyDict]

WorldState(timestamp, agent_states, object_locations) ==
    [timestamp |-> timestamp, agent_states |-> agent_states,
     object_locations |-> object_locations, predicates |-> {}, metadata |-> EmptyDict]

\* class ActionType(Enum): the members, each with its name and value
Member(name, value) == [enum |-> "ActionType", name |-> name, value |-> value]

ActionType ==
    {Member("NAVIGATE", "navigate"), Member("PICK", "pick"), Member("PLACE", "place"),
     Member("WAIT", "wait"), Member("HANDOVER", "handover")}

AbstractAction(action_type, parameters) ==
    [action_type |-> action_type, parameters |-> parameters, estimated_path |-> None,
     estimated_duration |-> 0, spatial_constraints |-> EmptyDict,
     temporal_constraints |-> EmptyDict]

(* The arguments the constructors are called with *)

\* intention ids, in lexicographic order
Intentions == <<"A", "B">>

IntentionIds == {Intentions[i] : i \in 1..Len(Intentions)}

\* probabilities in tenths, among them values outside [0, 1]
ProbValues == {-1, 0, 3, 5, 7, 10, 12}

Distributions == UNION {[S -> ProbValues] : S \in SUBSET IntentionIds}

\* an object that is no member of ActionType, by its type and its value
\* (the annotation `action_type: ActionType` is not checked at run time)
Other(type, value) == [enum |-> type, name |-> "", value |-> value]

\* what a caller may pass as action_type: a member of the enumeration, or any
\* other object, such as a string (also the value of a member), None or a number
ActionTypeArgs ==
    ActionType \cup {Other("str", "fly"), Other("str", "navigate"),
                     Other("NoneType", "None"), Other("int", "7")}

ParameterKeys == {"target", "item", "speed"}

ParameterValues == {"shelf_3", "item_7"}

ParameterDicts == UNION {[S -> ParameterValues] : S \in SUBSET ParameterKeys}

AgentIds == {"human_1", "robot_1"}

ZoneArgs == {"zone_SW", "zone_XX"}

HoldingArgs == {None, Some("item_1"), Some("item_99")}

ObjectLocationDicts ==
    UNION {[S -> {"shelf_1", "zone_NW", "nowhere"}] : S \in SUBSET {"item_1"}}

NewBeliefState(distribution, most_likely) ==
    /\ belief' = Some(BeliefState(0, "human_1", distribution, most_likely, 10))
    /\ UNCHANGED <<action, agents, world>>
    /\ UNCHANGED toolVars

NewAbstractAction(action_type, parameters) ==
    /\ action' = Some(AbstractAction(action_type, parameters))
    /\ UNCHANGED <<belief, agents, world>>
    /\ UNCHANGED toolVars

NewAgentState(agent_id, current_zone, holding) ==
    /\ agents' = [agents EXCEPT ![agent_id] = Some(AgentState(agent_id, current_zone, holding))]
    /\ UNCHANGED <<belief, action, world>>
    /\ UNCHANGED toolVars

\* WorldState(timestamp, {id: AgentState ...}, object_locations) over the
\* AgentState objects constructed so far
NewWorldState(object_locations) ==
    /\ world' = Some(WorldState(0,
                     [a \in {x \in AgentIds : agents[x] # None} |-> agents[a][1]],
                     object_locations))
    /\ UNCHANGED <<belief, action, agents>>
    /\ UNCHANGED toolVars

----------------------------------------------------------------------------
(* Specifications *)

Init ==
    /\ pc = "idle"
    /\ gazebo_json_path = None
    /\ output_path = "configs/domain.yaml"
    /\ domain = None
    /\ exc = "none"
    /\ stdout = <<>>
    /\ dirs \in [ParentDirs -> BOOLEAN]
    /\ fs \in [OutPaths -> {NoFile, StaleFile}]
    /\ \A p \in OutPaths : fs[p].exists => dirs[Parent(p)]
    /\ held = None
    /\ nmut = 0
    /\ fs_at_call = NoFile
    /\ prev_out = [p \in OutPaths |-> None]
    /\ belief = None
    /\ action = None
    /\ agents = [a \in AgentIds |-> None]
    /\ world = None

Next ==
    \/ \E g \in {None} \cup {Some(i) : i \in InputPaths}, o \in OutPaths : Main(g, o)
    \/ Mkdir
    \/ UseTestData
    \/ ParseGazebo
    \/ OpenForWrite
    \/ DumpYaml
    \/ PrintGenerated
    \/ PrintSummary
    \/ PrintComplete
    \/ Exit
    \/ CallerGenerate
    \/ \E m \in Mutations : CallerMutate(m)

Spec == Init /\ [][Next]_vars

\* the dataclasses are used in a process that ran no tool
TypesInit == Init /\ \A d \in ParentDirs : ~dirs[d]

BeliefNext ==
    \E d \in Distributions, m \in IntentionIds \cup {"C"} : NewBeliefState(d, m)

BeliefSpec == TypesInit /\ [][BeliefNext]_vars

ActionNext ==
    \E t \in ActionTypeArgs, p \in ParameterDicts : NewAbstractAction(t, p)

ActionSpec == TypesInit /\ [][ActionNext]_vars

WorldNext ==
    \/ \E a \in AgentIds, z \in ZoneArgs, h \in HoldingArgs : NewAgentState(a, z, h)
    \/ \E l \in ObjectLocationDicts : NewWorldState(l)

WorldSpec == TypesInit /\ [][WorldNext]_vars

----------------------------------------------------------------------------
(* Reading a written domain file back, line by line *)

IsTopKey(l) == l.ind = 0 /\ l.dash = 0

\* the lines below the top-level key k, up to the next top-level key
SectionLines(lines, k) ==
    LET starts == {i \in 1..Len(lines) : IsTopKey(lines[i]) /\ lines[i].key = k}
    IN  IF starts = {} THEN <<>>
        ELSE LET a == CHOOSE i \in starts : \A j \in starts : i <= j
                 later == {i \in (a + 1)..Len(lines) : IsTopKey(lines[i])}
                 b == IF later = {} THEN Len(lines) + 1
                      ELSE CHOOSE i \in later : \A j \in later : i <= j
             IN  SubSeq(lines, a + 1, b - 1)

IsEntryStart(l) == l.ind = 0 /\ l.dash = 1

\* how many records the list under the top-level key k has
EntryCount(lines, k) == Len(SelectSeq(SectionLines(lines, k), IsEntryStart))

\* the string values of field f of the records under k, in file order
FieldSeq(lines, k, f) ==
    LET HasField(l) == l.key = f /\ l.kind = "str"
        sel == SelectSeq(SectionLines(lines, k), HasField)
    IN  [i \in 1..Len(sel) |-> sel[i].s]

FieldSet(lines, k, f) == {FieldSeq(lines, k, f)[i] : i \in 1..Len(FieldSeq(lines, k, f))}

\* the integers written for field f of the mapping under k
IntField(lines, k, f) ==
    LET HasField(l) == l.key = f /\ l.kind = "int"
        sel == SelectSeq(SectionLines(lines, k), HasField)
    IN  {sel[i].n : i \in 1..Len(sel)}

\* positions of the process at which the with block has been left
Written == {"generated", "summary", "returned", "exit0"}

OutFile == fs[output_path]

Printed(texts) == \E i \in 1..Len(stdout) : stdout[i].text \in texts

----------------------------------------------------------------------------
(* The containment test the claims about zones are stated with: a closed   *)
(* point-in-rectangle test on a zone's bounds, and zone_of, which returns  *)
(* the first zone in the order of `zones` that contains the position.      *)

Bound(z, name) == Get(Get(z, "bounds"), name).n

Contains(z, x, y) ==
    /\ Bound(z, "x_min") <= x /\ x <= Bound(z, "x_max")
    /\ Bound(z, "y_min") <= y /\ y <= Bound(z, "y_max")

OnEdge(z, x, y) ==
    \/ x \in {Bound(z, "x_min"), Bound(z, "x_max")}
    \/ y \in {Bound(z, "y_min"), Bound(z, "y_max")}

ZonesOf(d) == Elems(Get(d, "zones"))

Containing(d, x, y) == {i \in 1..Len(ZonesOf(d)) : Contains(ZonesOf(d)[i], x, y)}

zone_of(d, x, y) ==
    IF Containing(d, x, y) = {} THEN None
    ELSE LET i == CHOOSE i \in Containing(d, x, y) : \A j \in Containing(d, x, y) : i <= j
         IN  Some(Get(ZonesOf(d)[i], "id").s)

\* zone_of over the zones in reverse order
zone_of_last(d, x, y) ==
    IF Containing(d, x, y) = {} THEN None
    ELSE LET i == CHOOSE i \in Containing(d, x, y) : \A j \in Containing(d, x, y) : i >= j
         IN  Some(Get(ZonesOf(d)[i], "id").s)

Width(d) == Get(Get(d, "environment"), "width").n

Height(d) == Get(Get(d, "environment"), "height").n

\* The floor positions that decide a statement about all positions: the floor's
\* corners, every edge coordinate of every zone, and the coordinates next to
\* each (a representative of every strip between two edges).
Near(c) == {c - 1, c, c + 1}

XSamples(d) ==
    (UNION {Near(Bound(ZonesOf(d)[i], "x_min")) \cup Near(Bound(ZonesOf(d)[i], "x_max"))
              : i \in 1..Len(ZonesOf(d))} \cup {0, Width(d)}) \cap 0..Width(d)

YSamples(d) ==
    (UNION {Near(Bound(ZonesOf(d)[i], "y_min")) \cup Near(Bound(ZonesOf(d)[i], "y_max"))
              : i \in 1..Len(ZonesOf(d))} \cup {0, Height(d)}) \cap 0..Height(d)

\* shelves and tables
Furniture(d) == Elems(Get(d, "shelves")) \o Elems(Get(d, "tables"))

PosX(f) == Elems(Get(f, "position"))[1].n

PosY(f) == Elems(Get(f, "position"))[2].n

----------------------------------------------------------------------------
(* Claims about the generation tool *)

\* C1: an invocation with an input path ends in NotImplementedError; the output
\* file is never created, opened or modified (it stays as it was when the
\* invocation started), no test data is generated, and neither the
\* "Generated domain config" line nor the summary is printed.
C1_InputFailsAndWritesNothing ==
    gazebo_json_path # None =>
        /\ pc \in {"mkdir", "branch", "failed", "idle"}
        /\ pc \in {"failed", "idle"} => exc = "NotImplementedError"
        /\ OutFile = fs_at_call
        /\ domain = None
        /\ ~Printed(SummaryTexts \cup {"Generated domain config at",
                                      "No Gazebo JSON provided - generating test data",
                                      "Domain assembly complete."})

\* an invocation with an input has failed, and the file that was at the output
\* path is still there
C1_Witness ==
    /\ gazebo_json_path # None
    /\ pc = "failed"
    /\ exc = "NotImplementedError"
    /\ fs_at_call = StaleFile
    /\ OutFile = StaleFile

\* C2: after an invocation without input has written the file, the file holds
\* exactly 4 zones with ids zone_SE, zone_SW, zone_NW, zone_NE, 3 shelves,
\* 1 table, 2 doors, 3 items and an environment of width 1600 and height 800;
\* such an invocation never ends in an error and, until it has ended with
\* status 0, always has a next statement to run.
C2_TestDomainWritten ==
    gazebo_json_path = None =>
        /\ exc = "none"
        /\ pc # "failed"
        /\ pc \notin {"idle", "exit0"} => ENABLED RunStep
        /\ pc \in Written =>
            /\ OutFile.exists
            /\ EntryCount(OutFile.lines, "zones") = 4
            /\ FieldSeq(OutFile.lines, "zones", "id")
                  = <<"zone_SE", "zone_SW", "zone_NW", "zone_NE">>
            /\ EntryCount(OutFile.lines, "shelves") = 3
            /\ EntryCount(OutFile.lines, "tables") = 1
            /\ EntryCount(OutFile.lines, "doors") = 2
            /\ EntryCount(OutFile.lines, "items") = 3
            /\ IntField(OutFile.lines, "environment", "width") = {1600}
            /\ IntField(OutFile.lines, "environment", "height") = {800}

\* an invocation without input has ended with status 0 over a file that was
\* there before
C2_Witness ==
    /\ gazebo_json_path = None
    /\ pc = "exit0"
    /\ fs_at_call = StaleFile
    /\ EntryCount(OutFile.lines, "zones") = 4

\* C3: in a written domain file every zone of a shelf or table is the id of a
\* zone, and every initial_location of an item is the id of a shelf or table.
C3_NoDanglingReference ==
    pc \in Written =>
        /\ FieldSet(OutFile.lines, "shelves", "zone") \cup FieldSet(OutFile.lines, "tables", "zone")
              \subseteq FieldSet(OutFile.lines, "zones", "id")
        /\ FieldSet(OutFile.lines, "items", "initial_location")
              \subseteq FieldSet(OutFile.lines, "shelves", "id")
                        \cup FieldSet(OutFile.lines, "tables", "id")

\* a written file whose shelves, tables and items do refer to zones and furniture
C3_Witness ==
    /\ pc \in Written
    /\ FieldSet(OutFile.lines, "shelves", "zone") = {"zone_SW", "zone_SE"}
    /\ FieldSet(OutFile.lines, "tables", "zone") = {"zone_NW"}
    /\ FieldSet(OutFile.lines, "items", "initial_location") = {"shelf_1", "shelf_2", "shelf_3"}

\* C4: when an invocation without input ends, the file it leaves equals the file
\* the previous completed invocation without input left at the same path,
\* whatever was in the file before and whatever a caller did to a structure
\* that generate_test_domain returned earlier.
C4_SecondRunSameFile ==
    (pc = "exit0" /\ prev_out[output_path] # None) =>
        OutFile.lines = prev_out[output_path][1]

\* a second invocation on the same path has ended after a caller changed a
\* structure it got from generate_test_domain
C4_Witness ==
    /\ pc = "exit0"
    /\ prev_out[output_path] # None
    /\ held # None
    /\ nmut > 0
    /\ held[1] # TestDomain
    /\ fs_at_call.exists

\* C8 as stated: every sampled floor position lies in exactly one zone, so that
\* zone_of does not depend on the order of the zones.
C8_ExactlyOneZone ==
    pc \in Written =>
        \A x \in XSamples(domain[1]), y \in YSamples(domain[1]) :
            /\ Cardinality(Containing(domain[1], x, y)) = 1
            /\ zone_of(domain[1], x, y) = zone_of_last(domain[1], x, y)

\* C8 amended: every floor position lies in at least one zone, and a position
\* that lies in two zones lies on an edge of each of them (the interiors are
\* pairwise disjoint).
C8_CoverDisjointInteriors ==
    pc \in Written =>
        \A x \in XSamples(domain[1]), y \in YSamples(domain[1]) :
            /\ Containing(domain[1], x, y) # {}
            /\ Cardinality(Containing(domain[1], x, y)) > 1 =>
                  /\ \A i \in Containing(domain[1], x, y) : OnEdge(ZonesOf(domain[1])[i], x, y)
                  /\ x = 800 \/ y = 400

\* the written domain has a position on the shared edge x = 800 that two zones
\* contain and where zone_of depends on the order of the zones, and an interior
\* position that one zone contains
C8_Witness ==
    /\ pc \in Written
    /\ Cardinality(Containing(domain[1], 800, 1)) = 2
    /\ zone_of(domain[1], 800, 1) = Some("zone_SE")
    /\ zone_of_last(domain[1], 800, 1) = Some("zone_SW")
    /\ Cardinality(Containing(domain[1], 801, 1)) = 1
    /\ 801 \in XSamples(domain[1])

\* C9: once a summary line is printed the output file holds the complete dump
\* of the domain and the printed counts and grid size are those of the file;
\* an invocation that ended in an error printed no summary.
C9_SummaryAfterWrite ==
    /\ Printed(SummaryTexts) =>
        /\ exc = "none"
        /\ domain # None
        /\ OutFile.exists
        /\ OutFile.lines = yaml_dump(domain[1])
        /\ \A i \in 1..Len(stdout) :
            /\ stdout[i].text = "Shelves" => stdout[i].a = EntryCount(OutFile.lines, "shelves")
            /\ stdout[i].text = "Items" => stdout[i].a = EntryCount(OutFile.lines, "items")
            /\ stdout[i].text = "Zones" => stdout[i].a = EntryCount(OutFile.lines, "zones")
            /\ stdout[i].text = "Grid" =>
                /\ {stdout[i].a} = IntField(OutFile.lines, "environment", "width")
                /\ {stdout[i].b} = IntField(OutFile.lines, "environment", "height")
    /\ exc # "none" => ~Printed(SummaryTexts)

\* the summary has been printed
C9_Witness ==
    /\ pc = "returned"
    /\ \E i \in 1..Len(stdout) : stdout[i] = PLine("Grid", "", 1600, 800)
    /\ \E i \in 1..Len(stdout) : stdout[i] = PLine("Zones", "", 4, 0)

\* C10: in the written domain the position of every shelf and table lies in the
\* bounds of its declared zone, and zone_of(position) is the declared zone.
C10_FurnitureInDeclaredZone ==
    pc \in Written =>
        \A k \in 1..Len(Furniture(domain[1])) :
            LET f == Furniture(domain[1])[k]
                declared == Get(f, "zone").s
            IN  /\ \E i \in 1..Len(ZonesOf(domain[1])) :
                      /\ Get(ZonesOf(domain[1])[i], "id").s = declared
                      /\ Contains(ZonesOf(domain[1])[i], PosX(f), PosY(f))
                /\ zone_of(domain[1], PosX(f), PosY(f)) = Some(declared)

\* the written domain has the table at (650, 710), which zone_of puts in zone_NW
C10_Witness ==
    /\ pc \in Written
    /\ Len(Furniture(domain[1])) = 4
    /\ PosX(Furniture(domain[1])[4]) = 650
    /\ zone_of(domain[1], 650, 710) = Some("zone_NW")

----------------------------------------------------------------------------
(* Claims about the dataclasses *)

RECURSIVE SumOver(_, _)
SumOver(f, S) ==
    IF S = {} THEN 0
    ELSE LET k == CHOOSE k \in S : TRUE IN f[k] + SumOver(f, S \ {k})

\* position of an intention id in the lexicographic order
Rank(id) == CHOOSE i \in 1..Len(Intentions) : Intentions[i] = id

\* the keys of maximum probability
MaxKeys(dist) == {k \in DOMAIN dist : \A j \in DOMAIN dist : dist[j] <= dist[k]}

\* the instance b meets the BeliefState invariant of the specification
ValidBelief(b) ==
    /\ \A k \in DOMAIN b.distribution : 0 <= b.distribution[k] /\ b.distribution[k] <= 10
    /\ SumOver(b.distribution, DOMAIN b.distribution) = 10
    /\ b.most_likely \in MaxKeys(b.distribution)
    /\ \A k \in MaxKeys(b.distribution) : Rank(b.most_likely) <= Rank(k)

\* C5: every BeliefState that construction accepts has its probabilities in
\* [0, 1], summing to 1.0, and most_likely the key of maximum probability, the
\* lexicographically smallest on a tie.
C5_BeliefStateValid == belief # None => ValidBelief(belief[1])

\* the table of section 4.4 of the specification: the keys each action type requires
RequiredParameters(name) ==
    CASE name = "NAVIGATE" -> {"target"}
      [] name = "PICK" -> {"target", "item"}
      [] name = "PLACE" -> {"target", "item"}
      [] name = "WAIT" -> {}
      [] name = "HANDOVER" -> {"target", "item"}

\* C6: every AbstractAction that can be constructed has an action_type among the
\* five members of ActionType and parameters holding every key its type requires.
C6_AbstractActionShape ==
    action # None =>
        /\ action[1].action_type \in ActionType
        /\ RequiredParameters(action[1].action_type.name) \subseteq DOMAIN action[1].parameters

\* the identifiers of the Domain Environment the tool generates
IdsIn(section) ==
    {Get(Elems(Get(generate_test_domain, section))[i], "id").s
        : i \in 1..PyLen(Get(generate_test_domain, section))}

\* C7: every WorldState that can be constructed has each object location the id
\* of a zone, shelf or table, each agent's current_zone the id of a zone, each
\* holding the id of an item, and no item held by two agents.
C7_WorldStateResolves ==
    world # None =>
        LET w == world[1] IN
        /\ \A o \in DOMAIN w.object_locations :
              w.object_locations[o] \in IdsIn("zones") \cup IdsIn("shelves") \cup IdsIn("tables")
        /\ \A a \in DOMAIN w.agent_states :
              /\ w.agent_states[a].current_zone \in IdsIn("zones")
              /\ w.agent_states[a].holding # None =>
                    w.agent_states[a].holding[1] \in IdsIn("items")
        /\ \A a1, a2 \in DOMAIN w.agent_states :
              (a1 # a2 /\ w.agent_states[a1].holding # None) =>
                  w.agent_states[a1].holding # w.agent_states[a2].holding

====
